---------------------------- MODULE Spec2Model ----------------------------
(***************************************************************************)
(* A model of UnitTest.hpp: the registry of unit tests, the assertion      *)
(* primitives Check / Require, UnitTest::Run and UnitTestsManager::RunTests.*)
(*                                                                         *)
(* Strings are TLA+ strings; concatenation (+ in the source) is \o.  The   *)
(* output stream is the sequence of the lines written to it: each          *)
(* "output << msg << '\n'" appends one element.                            *)
(*                                                                         *)
(* A test body (the std::function<void()>) is a sequence of statements:    *)
(* the four assertion macros and a throw statement, each optionally inside *)
(* the body's own  try { ... } catch (const std::exception&) {}.           *)
(***************************************************************************)
EXTENDS Integers, Sequences, FiniteSets, TLC

VARIABLES
    m_registeredUnitTests,  \* std::vector<UnitTest>
    m_currentTest,          \* TestExec: [errorMsgs |-> sequence of strings]
    pc,                     \* position of the caller: "idle", "loop" (inside
                            \* RunTests' for loop), "returned", "unwound"
    it,                     \* the range-for iterator, as an index
    isConsole,              \* RunTests local
    testsPath,              \* RunTests argument
    toExecuteTestsCount,    \* RunTests local
    successCount,           \* RunTests local
    errorsCount,            \* RunTests local
    output,                 \* the lines written to the sink by this invocation
    registerCalls,          \* history: number of RegisterTest calls so far
    registeredAtEntry,      \* history: the registry when RunTests was entered
    callsAtEntry,           \* history: registerCalls when RunTests was entered
    execLog,                \* history: one record per executed loop iteration
    consoleCalls,           \* history: the SetConsoleTextAttribute calls of
                            \* this invocation (a _WIN32 build)
    prevRun                 \* history: the invocation that returned before
                            \* this one was entered

vars == <<m_registeredUnitTests, m_currentTest, pc, it, isConsole, testsPath,
          toExecuteTestsCount, successCount, errorsCount, output,
          registerCalls, registeredAtEntry, callsAtEntry, execLog,
          consoleCalls, prevRun>>

(***************************************************************************)
(* Bounds of the model.                                                    *)
(***************************************************************************)
MaxTests == 2       \* registered tests (specification Spec)
MaxBodyLen == 3     \* statements of a test body (specification SpecBodies)
MaxStale == 1       \* assertion calls made outside a run, per idle period

(***************************************************************************)
(* std::string operator<  (char_traits<char>::compare, then the lengths).  *)
(***************************************************************************)
CharCode(c) ==
    CASE c = "A" -> 65
      [] c = "B" -> 66
      [] OTHER   -> 0

RECURSIVE StrLess(_, _)
StrLess(a, b) ==
    IF b = "" THEN FALSE
    ELSE IF a = "" THEN TRUE
    ELSE IF CharCode(Head(a)) < CharCode(Head(b)) THEN TRUE
    ELSE IF CharCode(Head(a)) > CharCode(Head(b)) THEN FALSE
    ELSE StrLess(Tail(a), Tail(b))

(***************************************************************************)
(* Thrown objects.  APFailException derives from std::exception and does   *)
(* not override what(): its description is the implementation's default.   *)
(***************************************************************************)
NoThrow == [type |-> "none", what |-> ""]

APFailException == [type |-> "APFailException", what |-> "std::exception"]

StdException(what) == [type |-> "std::exception", what |-> what]

\* an object whose type does not derive from std::exception (throw 42;)
OtherThrow == [type |-> "int", what |-> ""]

\* whether a handler  catch (const handler&)  matches the thrown object
Catches(handler, thrown) ==
    \/ handler = thrown.type
    \/ handler = "std::exception" /\ thrown.type = "APFailException"

(***************************************************************************)
(* UnitTest and TestExec.                                                  *)
(***************************************************************************)
UnitTest(fullName, code) == [m_fullName |-> fullName, m_testCode |-> code]

GetFullName(test) == test.m_fullName

TestExec == [errorMsgs |-> <<>>]

(***************************************************************************)
(* The assertion primitives.  Each takes the manager's m_currentTest and   *)
(* gives the new m_currentTest and the object thrown (NoThrow: the call    *)
(* returned).                                                              *)
(***************************************************************************)
\* mutant: only the first failure of a test is recorded
Check_FirstOnly(cur, exp, code) ==
    IF ~exp /\ cur.errorMsgs = <<>>
    THEN [cur    |-> [cur EXCEPT !.errorMsgs =
                         Append(@, "CHECK failed on: " \o code)],
          thrown |-> NoThrow]
    ELSE [cur |-> cur, thrown |-> NoThrow]

Check(cur, exp, code) ==
    IF ~exp
    THEN [cur    |-> [cur EXCEPT !.errorMsgs =
                         Append(@, "CHECK failed on: " \o code)],
          thrown |-> NoThrow]
    ELSE [cur |-> cur, thrown |-> NoThrow]

CheckPrint(cur, exp, code, debugPrint) ==
    IF ~exp
    THEN [cur    |-> [cur EXCEPT !.errorMsgs =
                         Append(@, "CHECK failed on: " \o code \o "  -  "
                                   \o debugPrint)],
          thrown |-> NoThrow]
    ELSE [cur |-> cur, thrown |-> NoThrow]

\* mutant: the failure is recorded and the call returns
Require_NoThrow(cur, exp, code) ==
    IF ~exp
    THEN [cur    |-> [cur EXCEPT !.errorMsgs =
                         Append(@, "REQUIRE failed on: " \o code)],
          thrown |-> NoThrow]
    ELSE [cur |-> cur, thrown |-> NoThrow]

Require(cur, exp, code) ==
    IF ~exp
    THEN [cur    |-> [cur EXCEPT !.errorMsgs =
                         Append(@, "REQUIRE failed on: " \o code)],
          thrown |-> APFailException]
    ELSE [cur |-> cur, thrown |-> NoThrow]

\* mutant: the message of Check is used
RequirePrint_CheckPrefix(cur, exp, code, debugPrint) ==
    IF ~exp
    THEN [cur    |-> [cur EXCEPT !.errorMsgs =
                         Append(@, "CHECK failed on: " \o code \o "  -  "
                                   \o debugPrint)],
          thrown |-> APFailException]
    ELSE [cur |-> cur, thrown |-> NoThrow]

RequirePrint(cur, exp, code, debugPrint) ==
    IF ~exp
    THEN [cur    |-> [cur EXCEPT !.errorMsgs =
                         Append(@, "REQUIRE failed on: " \o code \o "  -  "
                                   \o debugPrint)],
          thrown |-> APFailException]
    ELSE [cur |-> cur, thrown |-> NoThrow]

(***************************************************************************)
(* Statements of a test body.  The macros pass #_exp as the code text.     *)
(***************************************************************************)
CHECK(exp, code) ==
    [op |-> "CHECK", exp |-> exp, code |-> code, text |-> "", caught |-> FALSE]

CHECK_PRINT(exp, code, deb) ==
    [op |-> "CHECK_PRINT", exp |-> exp, code |-> code, text |-> deb,
     caught |-> FALSE]

REQUIRE(exp, code) ==
    [op |-> "REQUIRE", exp |-> exp, code |-> code, text |-> "",
     caught |-> FALSE]

REQUIRE_PRINT(exp, code, deb) ==
    [op |-> "REQUIRE_PRINT", exp |-> exp, code |-> code, text |-> deb,
     caught |-> FALSE]

\* throw std::runtime_error(what);   (any class derived from std::exception)
ThrowStd(what) ==
    [op |-> "throw", exp |-> FALSE, code |-> "std::exception", text |-> what,
     caught |-> FALSE]

\* throw 42;
ThrowInt ==
    [op |-> "throw", exp |-> FALSE, code |-> "int", text |-> "",
     caught |-> FALSE]

\* try { stmt } catch (const std::exception&) {}   written in the body
TryCatch(stmt) == [stmt EXCEPT !.caught = TRUE]

\* the effect of one statement, before the body's own handler
ExecStmt(stmt, cur) ==
    CASE stmt.op = "CHECK"         -> Check(cur, stmt.exp, stmt.code)
      [] stmt.op = "CHECK_PRINT"   -> CheckPrint(cur, stmt.exp, stmt.code,
                                                 stmt.text)
      [] stmt.op = "REQUIRE"       -> Require(cur, stmt.exp, stmt.code)
      [] stmt.op = "REQUIRE_PRINT" -> RequirePrint(cur, stmt.exp, stmt.code,
                                                   stmt.text)
      [] stmt.op = "throw"         ->
            [cur    |-> cur,
             thrown |-> IF stmt.code = "int" THEN OtherThrow
                        ELSE StdException(stmt.text)]

(***************************************************************************)
(* m_testCode(): the statements run in order from statement i; a thrown    *)
(* object that the body does not catch ends the body.  ran is the number   *)
(* of statements that were entered.                                        *)
(***************************************************************************)
RECURSIVE ExecBody(_, _, _)
ExecBody(code, i, cur) ==
    IF i > Len(code)
    THEN [cur |-> cur, thrown |-> NoThrow, ran |-> Len(code)]
    ELSE LET r == ExecStmt(code[i], cur)
             swallowed == /\ code[i].caught
                          /\ Catches("std::exception", r.thrown)
         IN  IF r.thrown.type = "none" \/ swallowed
             THEN ExecBody(code, i + 1, r.cur)
             ELSE [cur |-> r.cur, thrown |-> r.thrown, ran |-> i]

(***************************************************************************)
(* UnitTest::Run(exceptionError): the handlers are tried in the order in   *)
(* which they are written.  An object that neither handler matches leaves  *)
(* Run (escaped), and with it RunTests.                                    *)
(***************************************************************************)
\* mutant: the handler of std::exception is written first
Run_GenericHandlerFirst(test, cur, exceptionError) ==
    LET r == ExecBody(test.m_testCode, 1, cur)
    IN  IF r.thrown.type = "none"
        THEN [ret |-> TRUE, exceptionError |-> exceptionError,
              cur |-> r.cur, ran |-> r.ran, thrown |-> r.thrown,
              escaped |-> FALSE]
        ELSE IF Catches("std::exception", r.thrown)
        THEN [ret |-> FALSE, exceptionError |-> r.thrown.what,
              cur |-> r.cur, ran |-> r.ran, thrown |-> r.thrown,
              escaped |-> FALSE]
        ELSE [ret |-> FALSE, exceptionError |-> exceptionError,
              cur |-> r.cur, ran |-> r.ran, thrown |-> r.thrown,
              escaped |-> TRUE]

Run(test, cur, exceptionError) ==
    LET r == ExecBody(test.m_testCode, 1, cur)
    IN  IF r.thrown.type = "none"
        THEN [ret |-> TRUE, exceptionError |-> exceptionError,
              cur |-> r.cur, ran |-> r.ran, thrown |-> r.thrown,
              escaped |-> FALSE]
        ELSE IF Catches("APFailException", r.thrown)
        THEN [ret |-> FALSE, exceptionError |-> exceptionError,
              cur |-> r.cur, ran |-> r.ran, thrown |-> r.thrown,
              escaped |-> FALSE]
        ELSE IF Catches("std::exception", r.thrown)
        THEN [ret |-> FALSE, exceptionError |-> r.thrown.what,
              cur |-> r.cur, ran |-> r.ran, thrown |-> r.thrown,
              escaped |-> FALSE]
        ELSE [ret |-> FALSE, exceptionError |-> exceptionError,
              cur |-> r.cur, ran |-> r.ran, thrown |-> r.thrown,
              escaped |-> TRUE]

(***************************************************************************)
(* UnitTestsManager::Write: the colour is a console attribute (and only    *)
(* under _WIN32); the text written is msg and a line break.                *)
(***************************************************************************)
TestResult == {"DEFAULT", "SUCCESS", "FAILURE"}

\* mutant: on a console the colour is written into the text
Write_AnsiColour(out, msg, console, result) ==
    IF console /\ result # "DEFAULT"
    THEN Append(out, (IF result = "SUCCESS" THEN "\\033[32m"
                      ELSE "\\033[31m") \o msg \o "\\033[0m")
    ELSE Append(out, msg)

Write(out, msg, console, result) == Append(out, msg)

\* the attributes Write passes to SetConsoleTextAttribute, in order: the
\* colour of the result (none for DEFAULT), then the reset to 7
WriteAttributes(console, result) ==
    IF console
    THEN (CASE result = "SUCCESS" ->
                  <<"FOREGROUND_GREEN | FOREGROUND_INTENSITY">>
            [] result = "FAILURE" ->
                  <<"FOREGROUND_RED | FOREGROUND_INTENSITY">>
            [] OTHER -> <<>>) \o <<"7">>
    ELSE <<>>

RECURSIVE Repeated(_, _)
Repeated(seq, n) == IF n <= 0 THEN <<>> ELSE seq \o Repeated(seq, n - 1)

\* mutant: the messages are written last first
RECURSIVE WriteErrorMsgs_Reversed(_, _, _)
WriteErrorMsgs_Reversed(out, msgs, console) ==
    IF msgs = <<>> THEN out
    ELSE Write(WriteErrorMsgs_Reversed(out, Tail(msgs), console),
               "\t " \o Head(msgs), console, "FAILURE")

RECURSIVE WriteErrorMsgs(_, _, _)
WriteErrorMsgs(out, msgs, console) ==
    IF msgs = <<>> THEN out
    ELSE WriteErrorMsgs(Write(out, "\t " \o Head(msgs), console, "FAILURE"),
                        Tail(msgs), console)

(***************************************************************************)
(* UnitTestsManager::SortTests: std::sort by name.  std::sort gives a      *)
(* permutation that is ordered by the comparison; the order of elements    *)
(* that compare equivalent is unspecified, so every ordered permutation is *)
(* a possible outcome.                                                     *)
(***************************************************************************)
IndexPermutations(n) ==
    {f \in [1..n -> 1..n] : \A i, j \in 1..n : i # j => f[i] # f[j]}

Reorder(reg, f) == [i \in 1..Len(reg) |-> reg[f[i]]]

SortedByName(reg) ==
    \A i, j \in 1..Len(reg) :
        i < j => ~StrLess(GetFullName(reg[j]), GetFullName(reg[i]))

\* mutant: the registry is left in registration order
SortTests_Unsorted(reg) == {reg}

SortTests(reg) ==
    {s \in {Reorder(reg, f) : f \in IndexPermutations(Len(reg))} : SortedByName(s)}

(***************************************************************************)
(* One iteration of RunTests' for loop (lines 105-130) on `test`, from the *)
(* manager's m_currentTest `cur`, the sink `out` and the two counters.     *)
(***************************************************************************)
\* mutant: the accumulator is not reset before the body
LoopBody_NoReset(test, cur, out, console, succ, err) ==
    LET run == Run(test, cur, "")
        msgs == run.cur.errorMsgs
    IN  IF run.escaped
        THEN [run |-> run, out |-> out, succ |-> succ, err |-> err]
        ELSE IF run.ret /\ msgs = <<>>
        THEN [run  |-> run,
              out  |-> Write(out, "TEST " \o GetFullName(test)
                                   \o " -> SUCCESS", console, "SUCCESS"),
              succ |-> succ + 1,
              err  |-> err]
        ELSE LET o1 == Write(out, "TEST " \o GetFullName(test)
                                   \o " -> FAILURE", console, "FAILURE")
                 o2 == WriteErrorMsgs(o1, msgs, console)
                 o3 == IF run.exceptionError # ""
                       THEN Write(o2, "\t Exception triggered: "
                                      \o run.exceptionError, console, "FAILURE")
                       ELSE o2
             IN  [run |-> run, out |-> o3, succ |-> succ, err |-> err + 1]

LoopBody(test, cur, out, console, succ, err) ==
    LET run == Run(test, TestExec, "")
        msgs == run.cur.errorMsgs
    IN  IF run.escaped
        THEN [run |-> run, out |-> out, succ |-> succ, err |-> err]
        ELSE IF run.ret /\ msgs = <<>>
        THEN [run  |-> run,
              out  |-> Write(out, "TEST " \o GetFullName(test)
                                   \o " -> SUCCESS", console, "SUCCESS"),
              succ |-> succ + 1,
              err  |-> err]
        ELSE LET o1 == Write(out, "TEST " \o GetFullName(test)
                                   \o " -> FAILURE", console, "FAILURE")
                 o2 == WriteErrorMsgs(o1, msgs, console)
                 o3 == IF run.exceptionError # ""
                       THEN Write(o2, "\t Exception triggered: "
                                      \o run.exceptionError, console, "FAILURE")
                       ELSE o2
             IN  [run |-> run, out |-> o3, succ |-> succ, err |-> err + 1]

\* mutant: the header counts from one
Header_OffByOne(n) == "EXECUTING " \o ToString(n + 1) \o " UNIT TESTS..."

Header(n) == "EXECUTING " \o ToString(n) \o " UNIT TESTS..."

\* mutant: the two counters are passed in the other order
Footer_Swapped(n, succ, err) ==
    "EXECUTED " \o ToString(n) \o " UNIT TESTS. " \o ToString(err)
    \o " successful, " \o ToString(succ) \o " failed"

Footer(n, succ, err) ==
    "EXECUTED " \o ToString(n) \o " UNIT TESTS. " \o ToString(succ)
    \o " successful, " \o ToString(err) \o " failed"

(***************************************************************************)
(* RunTests as a function of the sorted registry and of m_currentTest: the *)
(* lines written, the tests executed in order, and whether RunTests was    *)
(* unwound.                                                                *)
(***************************************************************************)
RECURSIVE LoopFrom(_, _, _, _, _, _, _)
LoopFrom(reg, i, cur, out, succ, err, order) ==
    IF i > Len(reg)
    THEN [out     |-> Write(out, Footer(Len(reg), succ, err), FALSE,
                            IF err = 0 THEN "SUCCESS" ELSE "FAILURE"),
          order   |-> order,
          unwound |-> FALSE]
    ELSE LET r == LoopBody(reg[i], cur, out, FALSE, succ, err)
         IN  IF r.run.escaped
             THEN [out     |-> r.out,
                   order   |-> Append(order, reg[i]),
                   unwound |-> TRUE]
             ELSE LoopFrom(reg, i + 1, r.run.cur, r.out, r.succ, r.err,
                           Append(order, reg[i]))

RunReport(reg, cur) ==
    LoopFrom(reg, 1, cur, <<Header(Len(reg))>>, 0, 0, <<>>)

\* no invocation has returned yet
NoRun ==
    [returned |-> FALSE, output |-> <<>>, sorted |-> <<>>,
     isConsole |-> FALSE, testsPath |-> ""]

(***************************************************************************)
(* The initial state: the singleton as default-constructed.                *)
(***************************************************************************)
Init ==
    /\ m_registeredUnitTests = <<>>
    /\ m_currentTest = TestExec
    /\ pc = "idle"
    /\ it = 0
    /\ isConsole = FALSE
    /\ testsPath = ""
    /\ toExecuteTestsCount = 0
    /\ successCount = 0
    /\ errorsCount = 0
    /\ output = <<>>
    /\ registerCalls = 0
    /\ registeredAtEntry = <<>>
    /\ callsAtEntry = 0
    /\ execLog = <<>>
    /\ consoleCalls = <<>>
    /\ prevRun = NoRun

\* the caller is not inside RunTests
NotRunning == pc \in {"idle", "returned"}

runLocals == <<it, isConsole, testsPath, toExecuteTestsCount, successCount,
               errorsCount, output, registeredAtEntry, callsAtEntry, execLog,
               consoleCalls, prevRun>>

\* the registry as the last invocation sorted it (tests registered since
\* are behind it)
SortedAtRun == SubSeq(m_registeredUnitTests, 1, callsAtEntry)

(***************************************************************************)
(* RegisterTest(test): push_back.                                          *)
(***************************************************************************)
RegisterTest(test) ==
    /\ NotRunning
    /\ m_registeredUnitTests' = Append(m_registeredUnitTests, test)
    /\ registerCalls' = registerCalls + 1
    /\ UNCHANGED <<m_currentTest, pc, runLocals>>

(***************************************************************************)
(* CHECK / REQUIRE used while no test body runs (the macros reach the      *)
(* singleton from anywhere).  The APFailException of a failing REQUIRE     *)
(* goes to the caller's own handler.                                       *)
(***************************************************************************)
CheckOutsideRun(exp, code) ==
    /\ NotRunning
    /\ Len(m_currentTest.errorMsgs) < MaxStale
    /\ m_currentTest' = Check(m_currentTest, exp, code).cur
    /\ UNCHANGED <<m_registeredUnitTests, pc, registerCalls, runLocals>>

RequireOutsideRun(exp, code) ==
    /\ NotRunning
    /\ Len(m_currentTest.errorMsgs) < MaxStale
    /\ m_currentTest' = Require(m_currentTest, exp, code).cur
    /\ UNCHANGED <<m_registeredUnitTests, pc, registerCalls, runLocals>>

(***************************************************************************)
(* RunTests(output, testsPath), lines 93-101: the locals, SortTests, the   *)
(* header line.                                                            *)
(***************************************************************************)
\* mutant: only the tests whose name starts with testsPath are kept
RunTests_Begin_FilterByPath(sinkIsCout, path) ==
    /\ NotRunning
    /\ \E s \in SortTests(m_registeredUnitTests) :
          LET InPath(t) ==
                  /\ Len(GetFullName(t)) >= Len(path)
                  /\ SubSeq(GetFullName(t), 1, Len(path)) = path
          IN  m_registeredUnitTests' = SelectSeq(s, InPath)
    /\ isConsole' = sinkIsCout
    /\ testsPath' = path
    /\ toExecuteTestsCount' = Len(m_registeredUnitTests')
    /\ successCount' = 0
    /\ errorsCount' = 0
    /\ output' = <<Header(Len(m_registeredUnitTests'))>>
    /\ it' = 1
    /\ pc' = "loop"
    /\ registeredAtEntry' = m_registeredUnitTests
    /\ callsAtEntry' = registerCalls
    /\ execLog' = <<>>
    /\ consoleCalls' = <<>>
    /\ prevRun' = IF pc = "returned"
                  THEN [returned  |-> TRUE,
                        output    |-> output,
                        sorted    |-> SortedAtRun,
                        isConsole |-> isConsole,
                        testsPath |-> testsPath]
                  ELSE prevRun
    /\ UNCHANGED <<m_currentTest, registerCalls>>

RunTests_Begin(sinkIsCout, path) ==
    /\ NotRunning
    /\ isConsole' = sinkIsCout
    /\ testsPath' = path
    /\ toExecuteTestsCount' = Len(m_registeredUnitTests)
    /\ successCount' = 0
    /\ errorsCount' = 0
    /\ \E s \in SortTests(m_registeredUnitTests) : m_registeredUnitTests' = s
    /\ output' = <<Header(Len(m_registeredUnitTests))>>
    /\ it' = 1
    /\ pc' = "loop"
    /\ registeredAtEntry' = m_registeredUnitTests
    /\ callsAtEntry' = registerCalls
    /\ execLog' = <<>>
    /\ consoleCalls' = <<>>
    /\ prevRun' = IF pc = "returned"
                  THEN [returned  |-> TRUE,
                        output    |-> output,
                        sorted    |-> SortedAtRun,
                        isConsole |-> isConsole,
                        testsPath |-> testsPath]
                  ELSE prevRun
    /\ UNCHANGED <<m_currentTest, registerCalls>>

(***************************************************************************)
(* RunTests, lines 103-131: one iteration of the loop.  An object that     *)
(* UnitTest::Run does not catch unwinds RunTests.                          *)
(***************************************************************************)
RunTests_Test ==
    /\ pc = "loop"
    /\ it <= Len(m_registeredUnitTests)
    /\ LET test == m_registeredUnitTests[it]
           r == LoopBody(test, m_currentTest, output, isConsole,
                         successCount, errorsCount)
       IN  /\ m_currentTest' = r.run.cur
           /\ output' = r.out
           /\ successCount' = r.succ
           /\ errorsCount' = r.err
           /\ pc' = IF r.run.escaped THEN "unwound" ELSE "loop"
           /\ it' = IF r.run.escaped THEN it ELSE it + 1
           /\ execLog' = Append(execLog,
                 [test  |-> test,
                  stale |-> m_currentTest.errorMsgs,
                  run   |-> r.run,
                  from  |-> Len(output) + 1,
                  to    |-> Len(r.out)])
           /\ consoleCalls' = consoleCalls \o
                 Repeated(WriteAttributes(isConsole,
                                          IF r.succ > successCount
                                          THEN "SUCCESS" ELSE "FAILURE"),
                          Len(r.out) - Len(output))
    /\ UNCHANGED <<m_registeredUnitTests, isConsole, testsPath,
                   toExecuteTestsCount, registerCalls, registeredAtEntry,
                   callsAtEntry, prevRun>>

(***************************************************************************)
(* RunTests, lines 133-134: the footer line, and the return.               *)
(***************************************************************************)
RunTests_End ==
    /\ pc = "loop"
    /\ it > Len(m_registeredUnitTests)
    /\ output' = Write(output,
                       Footer(toExecuteTestsCount, successCount, errorsCount),
                       isConsole,
                       IF errorsCount = 0 THEN "SUCCESS" ELSE "FAILURE")
    /\ consoleCalls' = consoleCalls \o
          WriteAttributes(isConsole,
                          IF errorsCount = 0 THEN "SUCCESS" ELSE "FAILURE")
    /\ pc' = "returned"
    /\ UNCHANGED <<m_registeredUnitTests, m_currentTest, it, isConsole,
                   testsPath, toExecuteTestsCount, successCount, errorsCount,
                   registerCalls, registeredAtEntry, callsAtEntry, execLog,
                   prevRun>>

(***************************************************************************)
(* The inputs.  Names: one is a proper prefix of another.                  *)
(***************************************************************************)
Names == {"A", "AB", "B"}

PassBody == <<CHECK(TRUE, "x==1")>>

AssertFailBody ==
    <<CHECK(FALSE, "x==1"), REQUIRE(FALSE, "y==2"), CHECK(FALSE, "x==1")>>

ThrowStdBody == <<ThrowStd("boom")>>

ThrowIntBody == <<ThrowInt>>

CatalogueTests ==
    {UnitTest(n, b) : n \in Names,
                      b \in {PassBody, AssertFailBody, ThrowStdBody,
                             ThrowIntBody}}

\* the statements the bodies of SpecBodies are made of
Stmts ==
    {CHECK(e, c) : e \in BOOLEAN, c \in {"x==1", "y==2"}}
    \cup {CHECK_PRINT(e, "x==1", "dbg") : e \in BOOLEAN}
    \cup {REQUIRE(e, "y==2") : e \in BOOLEAN}
    \cup {REQUIRE_PRINT(e, "x==1", "dbg") : e \in BOOLEAN}
    \cup {ThrowStd("boom"), ThrowStd(""), ThrowInt}
    \cup {TryCatch(REQUIRE(FALSE, "y==2")), TryCatch(ThrowStd("boom")),
          TryCatch(ThrowInt)}

Bodies == UNION {[1..n -> Stmts] : n \in 0..MaxBodyLen}

(***************************************************************************)
(* Spec: several tests from the catalogue, assertion calls outside a run,  *)
(* repeated runs.                                                          *)
(***************************************************************************)
RegisterCatalogueTest ==
    /\ Len(m_registeredUnitTests) < MaxTests
    /\ \E t \in CatalogueTests : RegisterTest(t)

CheckOutside == \E e \in BOOLEAN : CheckOutsideRun(e, "stale")

RequireOutside == \E e \in BOOLEAN : RequireOutsideRun(e, "stale")

RunTests == RunTests_Begin(FALSE, "")

Next ==
    \/ RegisterCatalogueTest
    \/ CheckOutside
    \/ RequireOutside
    \/ RunTests
    \/ RunTests_Test
    \/ RunTests_End

Spec == Init /\ [][Next]_vars

(***************************************************************************)
(* SpecBodies: one test, its body any sequence of at most MaxBodyLen       *)
(* statements.                                                             *)
(***************************************************************************)
RegisterBodyTest ==
    /\ m_registeredUnitTests = <<>>
    /\ \E b \in Bodies : RegisterTest(UnitTest("A", b))

NextBodies ==
    \/ RegisterBodyTest
    \/ RunTests
    \/ RunTests_Test
    \/ RunTests_End

SpecBodies == Init /\ [][NextBodies]_vars

(***************************************************************************)
(* SpecSinks: RunTests on a sink that is std::cout or another stream, with *)
(* any testsPath, on tests whose blocks have one, several or no lines.     *)
(***************************************************************************)
MixedFailBody ==
    <<CHECK_PRINT(FALSE, "x==1", "dbg"), CHECK(TRUE, "x==1"),
      CHECK(FALSE, "y==2"), ThrowStd("boom")>>

SinkTests ==
    {UnitTest(n, b) : n \in {"A", "B"},
                      b \in {PassBody, AssertFailBody, MixedFailBody,
                             ThrowIntBody}}

Paths == {"", "A"}

RegisterSinkTest ==
    /\ Len(m_registeredUnitTests) < MaxTests
    /\ \E t \in SinkTests : RegisterTest(t)

RunTestsOnSink ==
    \E sinkIsCout \in BOOLEAN, path \in Paths :
        RunTests_Begin(sinkIsCout, path)

NextSinks ==
    \/ RegisterSinkTest
    \/ RunTestsOnSink
    \/ RunTests_Test
    \/ RunTests_End

SpecSinks == Init /\ [][NextSinks]_vars

(***************************************************************************)
(* Reading the report.                                                     *)
(***************************************************************************)
StartsWith(str, prefix) ==
    Len(str) >= Len(prefix) /\ SubSeq(str, 1, Len(prefix)) = prefix

EndsWith(str, suffix) ==
    /\ Len(str) >= Len(suffix)
    /\ SubSeq(str, Len(str) - Len(suffix) + 1, Len(str)) = suffix

IsSuccessLine(line) ==
    StartsWith(line, "TEST ") /\ EndsWith(line, " -> SUCCESS")

IsFailureLine(line) ==
    StartsWith(line, "TEST ") /\ EndsWith(line, " -> FAILURE")

IsTestLine(line) == IsSuccessLine(line) \/ IsFailureLine(line)

\* the name printed in a TEST line: between "TEST " and " -> SUCCESS"
NameOfTestLine(line) ==
    SubSeq(line, Len("TEST ") + 1, Len(line) - Len(" -> SUCCESS"))

IsFooterLine(line) == StartsWith(line, "EXECUTED ")

TestLines == {i \in 1..Len(output) : IsTestLine(output[i])}

(***************************************************************************)
(* C1: the TEST lines of the report are in ascending order of test name:   *)
(* the name of each TEST line is >= the name of every TEST line before it, *)
(* whatever the registration order was.                                    *)
(***************************************************************************)
C1_ReportSortedByName ==
    \A i, j \in TestLines :
        i < j => ~StrLess(NameOfTestLine(output[j]), NameOfTestLine(output[i]))

\* a finished run of two tests that were registered in descending order
C1_Witness ==
    /\ pc = "returned"
    /\ Len(registeredAtEntry) = 2
    /\ StrLess(GetFullName(registeredAtEntry[2]),
               GetFullName(registeredAtEntry[1]))
    /\ Cardinality(TestLines) = 2

(***************************************************************************)
(* C2: no failure of a test escapes RunTests or stops the loop: RunTests   *)
(* is never unwound, and when it has returned every registered test has    *)
(* its TEST line and the last line is the footer.                          *)
(***************************************************************************)
C2_NoFailureEscapesRunTests ==
    /\ pc # "unwound"
    /\ pc = "returned" =>
          /\ Cardinality(TestLines) = callsAtEntry
          /\ IsFooterLine(output[Len(output)])

(***************************************************************************)
(* C3: an executed test is reported SUCCESS if and only if Run returned    *)
(* true and the accumulator was empty when the body finished; in every     *)
(* other case it is reported FAILURE.                                      *)
(***************************************************************************)
C3_SuccessIffCleanReturn ==
    \A k \in 1..Len(execLog) :
        LET e == execLog[k]
            clean == e.run.ret /\ e.run.cur.errorMsgs = <<>>
        IN  /\ e.from <= e.to
            /\ e.to <= Len(output)
            /\ output[e.from] =
                  "TEST " \o GetFullName(e.test)
                  \o (IF clean THEN " -> SUCCESS" ELSE " -> FAILURE")

(***************************************************************************)
(* Reading a test body.                                                    *)
(***************************************************************************)
IsCheckStmt(stmt) == stmt.op \in {"CHECK", "CHECK_PRINT"}

IsRequireStmt(stmt) == stmt.op \in {"REQUIRE", "REQUIRE_PRINT"}

IsFailingCheck(stmt) == IsCheckStmt(stmt) /\ ~stmt.exp

IsFailingRequire(stmt) == IsRequireStmt(stmt) /\ ~stmt.exp

OnlyChecks(code) == \A i \in 1..Len(code) : IsCheckStmt(code[i])

NoTryCatch(code) == \A i \in 1..Len(code) : ~code[i].caught

\* the failing Checks among the first n statements, in order
FailingChecksBefore(code, n) ==
    SelectSeq(SubSeq(code, 1, n - 1), IsFailingCheck)

\* the statements where a Require fails, given that the statement is reached
FailingRequires(code) == {i \in 1..Len(code) : IsFailingRequire(code[i])}

IsMessageLineOf(line, prefix, stmt) ==
    StartsWith(line, "\t " \o prefix \o " failed on: " \o stmt.code)

IsExceptionLine(line) == StartsWith(line, "\t Exception triggered: ")

(***************************************************************************)
(* C4: a test whose body makes only Check calls evaluates all of them; it  *)
(* is reported SUCCESS when all pass; when some fail it is reported        *)
(* FAILURE with one message line for each failing Check, in order.         *)
(***************************************************************************)
C4_OnlyChecks ==
    \A k \in 1..Len(execLog) :
        LET e == execLog[k]
            code == e.test.m_testCode
            failing == FailingChecksBefore(code, Len(code) + 1)
        IN  OnlyChecks(code) =>
              /\ e.run.ran = Len(code)
              /\ e.to - e.from = Len(failing)
              /\ e.to <= Len(output)
              /\ IF failing = <<>>
                 THEN IsSuccessLine(output[e.from])
                 ELSE /\ IsFailureLine(output[e.from])
                      /\ \A n \in 1..Len(failing) :
                            IsMessageLineOf(output[e.from + n], "CHECK",
                                            failing[n])

\* a body of Checks only: two fail on different expressions, the last passes
C4_Witness ==
    /\ pc = "returned"
    /\ Len(execLog) = 1
    /\ LET code == execLog[1].test.m_testCode
       IN  /\ OnlyChecks(code)
           /\ Len(code) = 3
           /\ IsFailingCheck(code[1])
           /\ IsFailingCheck(code[2])
           /\ code[1].code # code[2].code
           /\ code[3].exp
    /\ execLog[1].to - execLog[1].from = 2

(***************************************************************************)
(* C5 as stated: when a Require fails inside a test body, no statement     *)
(* after it runs, and the test is reported FAILURE with the messages of    *)
(* the Checks that failed before it and then the Require's message, and    *)
(* nothing else.                                                           *)
(***************************************************************************)
RequireAborts(e, code, i) ==
    /\ e.run.ran = i
    /\ e.to <= Len(output)
    /\ IsFailureLine(output[e.from])
    /\ LET failing == FailingChecksBefore(code, i)
       IN  /\ e.to - e.from = Len(failing) + 1
           /\ \A n \in 1..Len(failing) :
                 IsMessageLineOf(output[e.from + n], "CHECK", failing[n])
           /\ IsMessageLineOf(output[e.to], "REQUIRE", code[i])

\* statement i is reached: no statement before it throws
Reached(code, i) ==
    \A j \in 1..(i - 1) : code[j].op # "throw" /\ ~IsFailingRequire(code[j])

C5_RequireStopsBody ==
    \A k \in 1..Len(execLog) :
        LET e == execLog[k]
            code == e.test.m_testCode
        IN  \A i \in FailingRequires(code) :
                Reached(code, i) => RequireAborts(e, code, i)

(***************************************************************************)
(* C5, amended: the same, for a test body that does not itself catch the   *)
(* abort signal (no statement of the body is inside a try / catch of the   *)
(* body).                                                                  *)
(***************************************************************************)
C5_RequireStopsBodyWithoutTryCatch ==
    \A k \in 1..Len(execLog) :
        LET e == execLog[k]
            code == e.test.m_testCode
        IN  NoTryCatch(code) =>
                \A i \in FailingRequires(code) :
                    Reached(code, i) => RequireAborts(e, code, i)

\* a failing Check, then a failing Require, then a failing Check
C5_Witness ==
    /\ pc = "returned"
    /\ Len(execLog) = 1
    /\ LET code == execLog[1].test.m_testCode
       IN  /\ NoTryCatch(code)
           /\ Len(code) = 3
           /\ IsFailingCheck(code[1])
           /\ IsFailingRequire(code[2])
           /\ IsFailingCheck(code[3])
    /\ execLog[1].run.ran = 2
    /\ execLog[1].to - execLog[1].from = 2

(***************************************************************************)
(* C6: a test whose body raises an error other than the abort signal is    *)
(* reported FAILURE, and the last line of its report is "Exception         *)
(* triggered: " and the error's description, whatever the description and  *)
(* the kind of the error.                                                  *)
(***************************************************************************)
C6_RaisedErrorIsReported ==
    \A k \in 1..Len(execLog) :
        LET e == execLog[k]
        IN  e.run.thrown.type \notin {"none", "APFailException"} =>
              /\ e.from < e.to
              /\ e.to <= Len(output)
              /\ IsFailureLine(output[e.from])
              /\ output[e.to] =
                    "\t Exception triggered: " \o e.run.thrown.what

(***************************************************************************)
(* C10: a test that a failing Require aborted (Run caught the abort        *)
(* signal) has Run return false with the exception message empty; its      *)
(* report ends with the Require's message line and has no "Exception       *)
(* triggered:" line.                                                       *)
(***************************************************************************)
C10_AbortIsNotAGenericError ==
    \A k \in 1..Len(execLog) :
        LET e == execLog[k]
            code == e.test.m_testCode
        IN  e.run.thrown.type = "APFailException" =>
              /\ ~e.run.ret
              /\ e.run.exceptionError = ""
              /\ ~e.run.escaped
              /\ e.from < e.to
              /\ e.to <= Len(output)
              /\ IsFailureLine(output[e.from])
              /\ IsMessageLineOf(output[e.to], "REQUIRE", code[e.run.ran])
              /\ \A n \in e.from..e.to : ~IsExceptionLine(output[n])

\* a failing Require aborted the only test; the run has returned
C10_Witness ==
    /\ pc = "returned"
    /\ Len(execLog) = 1
    /\ execLog[1].run.thrown.type = "APFailException"
    /\ IsFailingRequire(execLog[1].test.m_testCode[execLog[1].run.ran])
    /\ execLog[1].to > execLog[1].from

(***************************************************************************)
(* C7: the message lines reported under a test are exactly the messages    *)
(* its own body appends, starting from an empty accumulator: whatever the  *)
(* accumulator held when the iteration began (from an earlier test or      *)
(* from before the run) is not reported, and a test whose own body is      *)
(* clean is reported SUCCESS.                                              *)
(***************************************************************************)
OwnRun(test) == ExecBody(test.m_testCode, 1, TestExec)

C7_OnlyOwnMessages ==
    \A k \in 1..Len(execLog) :
        LET e == execLog[k]
            own == OwnRun(e.test)
            msgs == own.cur.errorMsgs
        IN  /\ e.run.cur.errorMsgs = msgs
            /\ ~e.run.escaped =>
                 /\ e.to <= Len(output)
                 /\ e.to - e.from \in {Len(msgs), Len(msgs) + 1}
                 /\ \A n \in 1..Len(msgs) : output[e.from + n] = "\t " \o msgs[n]
                 /\ e.to - e.from = Len(msgs) + 1 => IsExceptionLine(output[e.to])
                 /\ (own.thrown.type = "none" /\ msgs = <<>>) =>
                        IsSuccessLine(output[e.from]) /\ e.to = e.from

\* a clean test, run while the accumulator held messages, is reported SUCCESS
C7_Witness ==
    /\ pc = "returned"
    /\ \E k \in 1..Len(execLog) :
          /\ execLog[k].stale # <<>>
          /\ IsSuccessLine(output[execLog[k].from])
    /\ \E k \in 1..Len(execLog) :
          /\ execLog[k].stale # <<>>
          /\ execLog[k].run.cur.errorMsgs # <<>>
          /\ execLog[k].run.cur.errorMsgs # execLog[k].stale

(***************************************************************************)
(* C8: the header shows the number of RegisterTest calls made before the   *)
(* invocation; the footer shows the same number N, the number S of TEST    *)
(* lines ending in SUCCESS and the number F of those ending in FAILURE,    *)
(* and S + F = N.                                                          *)
(***************************************************************************)
SuccessLines == {i \in 1..Len(output) : IsSuccessLine(output[i])}

FailureLines == {i \in 1..Len(output) : IsFailureLine(output[i])}

C8_HeaderAndFooterCounts ==
    /\ pc \in {"loop", "unwound"} =>
          /\ callsAtEntry = registerCalls
          /\ output[1] = "EXECUTING " \o ToString(registerCalls)
                         \o " UNIT TESTS..."
    /\ pc = "returned" =>
          /\ output[1] = "EXECUTING " \o ToString(callsAtEntry)
                         \o " UNIT TESTS..."
          /\ output[Len(output)] =
                "EXECUTED " \o ToString(callsAtEntry) \o " UNIT TESTS. "
                \o ToString(Cardinality(SuccessLines)) \o " successful, "
                \o ToString(Cardinality(FailureLines)) \o " failed"
          /\ Cardinality(SuccessLines) + Cardinality(FailureLines)
                = callsAtEntry

\* two tests of one name, one reported SUCCESS and one FAILURE
C8_Witness ==
    /\ pc = "returned"
    /\ callsAtEntry = 2
    /\ GetFullName(registeredAtEntry[1]) = GetFullName(registeredAtEntry[2])
    /\ Cardinality(SuccessLines) = 1
    /\ Cardinality(FailureLines) = 1

(***************************************************************************)
(* C9 as stated: whatever the order in which the tests of the registry     *)
(* were registered, RunTests executes them in the same order and writes    *)
(* the same output, also when two tests share a name.                      *)
(***************************************************************************)
ExecutedTests == [k \in 1..Len(execLog) |-> execLog[k].test]

SameReportForEveryOrder ==
    \A f \in IndexPermutations(Len(registeredAtEntry)) :
        \A s \in SortTests(Reorder(registeredAtEntry, f)) :
            LET r == RunReport(s, TestExec)
            IN  /\ r.out = output
                /\ r.order = ExecutedTests

C9_RegistrationOrderIrrelevant ==
    pc \in {"returned", "unwound"} => SameReportForEveryOrder

(***************************************************************************)
(* C9, amended: the same, for a registry whose tests have pairwise         *)
(* distinct names.                                                         *)
(***************************************************************************)
DistinctNames(reg) ==
    \A i, j \in 1..Len(reg) :
        i # j => GetFullName(reg[i]) # GetFullName(reg[j])

C9_RegistrationOrderIrrelevantForDistinctNames ==
    (pc \in {"returned", "unwound"} /\ DistinctNames(registeredAtEntry))
        => SameReportForEveryOrder

\* two tests of different names and bodies, registered in descending order
C9_Witness ==
    /\ pc = "returned"
    /\ Len(registeredAtEntry) = 2
    /\ StrLess(GetFullName(registeredAtEntry[2]),
               GetFullName(registeredAtEntry[1]))
    /\ registeredAtEntry[1].m_testCode # registeredAtEntry[2].m_testCode
    /\ Len(execLog) = 2

(***************************************************************************)
(* C11: RunTests on an empty registry writes exactly two lines, the header *)
(* with count 0 and the footer with count 0, 0 successful and 0 failed,    *)
(* and no line of a test.                                                  *)
(***************************************************************************)
C11_EmptyRegistryReport ==
    (pc \in {"returned", "unwound"} /\ registeredAtEntry = <<>>) =>
        /\ pc = "returned"
        /\ output = <<"EXECUTING 0 UNIT TESTS...",
                      "EXECUTED 0 UNIT TESTS. 0 successful, 0 failed">>
        /\ TestLines = {}
        /\ execLog = <<>>

C11_Witness ==
    /\ pc = "returned"
    /\ registeredAtEntry = <<>>
    /\ Len(output) = 2

(***************************************************************************)
(* C12: the accumulator is mutated only while a test body runs inside      *)
(* RunTests: a step taken while no invocation is in progress (before a     *)
(* run, after a run) leaves m_currentTest as it was, whatever Check or     *)
(* Require call the step is.                                               *)
(***************************************************************************)
C12_AccumulatorOnlyMutatedWhileRunning ==
    [][NotRunning => m_currentTest' = m_currentTest]_vars

(***************************************************************************)
(* The message a failing assertion statement is said to record, with `sep` *)
(* between the expression and the debug text, and the messages of the      *)
(* first n statements of a body, in order (a passing one has none).        *)
(***************************************************************************)
ExpectedMessage(stmt, sep) ==
    LET prefix == IF IsCheckStmt(stmt) THEN "CHECK failed on: "
                  ELSE "REQUIRE failed on: "
    IN  IF stmt.op \in {"CHECK_PRINT", "REQUIRE_PRINT"}
        THEN prefix \o stmt.code \o sep \o stmt.text
        ELSE prefix \o stmt.code

RECURSIVE ExpectedMsgs(_, _, _)
ExpectedMsgs(code, n, sep) ==
    IF n = 0 THEN <<>>
    ELSE LET before == ExpectedMsgs(code, n - 1, sep)
         IN  IF IsFailingCheck(code[n]) \/ IsFailingRequire(code[n])
             THEN Append(before, ExpectedMessage(code[n], sep))
             ELSE before

\* the accumulator after every executed body is the messages of the
\* assertions that failed among the statements that ran
MessagesRecordedWith(sep) ==
    \A k \in 1..Len(execLog) :
        LET e == execLog[k]
        IN  e.run.cur.errorMsgs =
                ExpectedMsgs(e.test.m_testCode, e.run.ran, sep)

(***************************************************************************)
(* C13 as stated: a failing Check on e records "CHECK failed on: " e, with *)
(* debug text d followed by " - " (one space, hyphen, one space) and d; a  *)
(* failing Require the same with "REQUIRE failed on: "; a passing Check or *)
(* Require records nothing.                                                *)
(***************************************************************************)
C13_MessageShape == MessagesRecordedWith(" - ")

(***************************************************************************)
(* C13 amended: the same, with the debug text after "  -  " (two spaces,   *)
(* hyphen, two spaces).                                                    *)
(***************************************************************************)
C13_MessageShapeTwoSpaces == MessagesRecordedWith("  -  ")

C13_Witness ==
    \E k \in 1..Len(execLog) :
        LET code == execLog[k].test.m_testCode
        IN  /\ execLog[k].run.ran = Len(code)
            /\ \E i, j, l \in 1..Len(code) :
                  /\ code[i].op = "CHECK_PRINT" /\ ~code[i].exp
                  /\ code[j].op = "REQUIRE_PRINT" /\ ~code[j].exp
                  /\ IsCheckStmt(code[l]) /\ code[l].exp
            /\ Len(execLog[k].run.cur.errorMsgs) = 2

(***************************************************************************)
(* C14: testsPath is a no-op.  Whatever testsPath was passed, an           *)
(* invocation that is over has kept every test, has executed the sorted    *)
(* registry in its order and has written the lines that RunTests writes as *)
(* a function of that registry alone; and an invocation that returns       *)
(* after one that was given another testsPath, on the same registry, has   *)
(* written the same output.                                                *)
(***************************************************************************)
C14_TestsPathIsNoOp ==
    /\ pc \in {"returned", "unwound"} =>
          /\ Len(m_registeredUnitTests) >= callsAtEntry
          /\ SortedAtRun \in SortTests(registeredAtEntry)
          /\ LET r == RunReport(SortedAtRun, TestExec)
             IN  /\ output = r.out
                 /\ ExecutedTests = r.order
                 /\ (pc = "unwound") = r.unwound
    /\ ( /\ pc = "returned"
         /\ prevRun.returned
         /\ prevRun.testsPath # testsPath
         /\ Len(m_registeredUnitTests) >= callsAtEntry
         /\ prevRun.sorted = SortedAtRun ) =>
            output = prevRun.output

C14_Witness ==
    /\ pc = "returned"
    /\ prevRun.returned
    /\ prevRun.testsPath # testsPath
    /\ prevRun.sorted = SortedAtRun
    /\ Len(execLog) = 2
    /\ \E k \in 1..2 : GetFullName(execLog[k].test) = "B"

(***************************************************************************)
(* C15: decoration never changes the text.  Write adds the line it is      *)
(* given, as it is, for every isConsole and every TestResult; and an       *)
(* invocation on a sink that is detected as the console writes the same    *)
(* lines as one on a sink that is not, the registry being the same.        *)
(***************************************************************************)
C15_DecorationKeepsText ==
    /\ \A i \in 1..Len(output) :
          \A console \in BOOLEAN, result \in TestResult :
              Write(SubSeq(output, 1, i - 1), output[i], console, result)
                  = SubSeq(output, 1, i)
    /\ ( /\ pc = "returned"
         /\ prevRun.returned
         /\ prevRun.isConsole # isConsole
         /\ prevRun.sorted = SortedAtRun ) =>
            output = prevRun.output

\* a console run that set both colours, after a run of the same registry
\* on another stream
C15_Witness ==
    /\ pc = "returned"
    /\ prevRun.returned
    /\ isConsole /\ ~prevRun.isConsole
    /\ prevRun.sorted = SortedAtRun
    /\ \E i, j \in 1..Len(consoleCalls) :
          /\ consoleCalls[i] = "FOREGROUND_GREEN | FOREGROUND_INTENSITY"
          /\ consoleCalls[j] = "FOREGROUND_RED | FOREGROUND_INTENSITY"
    /\ Len(consoleCalls) = 2 * (Len(output) - 1)

(***************************************************************************)
(* C16: the lines of one test form a block: first its single TEST line,    *)
(* then one line for each message in the order in which the assertions     *)
(* failed, then at most one "Exception triggered:" line, last.  A test     *)
(* reported SUCCESS has exactly one line.  The blocks follow one another   *)
(* after the header, in the order of execution, and never interleave; the  *)
(* footer comes after the last block.                                      *)
(***************************************************************************)
C16_BlockOrder ==
    /\ \A k \in 1..Len(execLog) :
          LET e == execLog[k]
              failed == ExpectedMsgs(e.test.m_testCode, e.run.ran, "  -  ")
          IN  ~e.run.escaped =>
                /\ e.from = (IF k = 1 THEN 2 ELSE execLog[k - 1].to + 1)
                /\ e.from <= e.to /\ e.to <= Len(output)
                /\ IsTestLine(output[e.from])
                /\ NameOfTestLine(output[e.from]) = GetFullName(e.test)
                /\ IsSuccessLine(output[e.from]) => e.to = e.from
                /\ e.to \in {e.from + Len(failed), e.from + Len(failed) + 1}
                /\ \A n \in 1..Len(failed) :
                      output[e.from + n] = "\t " \o failed[n]
                /\ \A i \in (e.from + 1)..e.to :
                      /\ ~IsTestLine(output[i])
                      /\ IsExceptionLine(output[i]) <=>
                            i = e.from + Len(failed) + 1
    /\ pc = "returned" =>
          /\ IsFooterLine(output[Len(output)])
          /\ Len(output) = (IF execLog = <<>> THEN 2
                            ELSE execLog[Len(execLog)].to + 1)

\* a block of a TEST line, two message lines and the exception line, and a
\* block of one line
C16_Witness ==
    /\ pc = "returned"
    /\ Len(execLog) = 2
    /\ \E k \in 1..2 :
          /\ execLog[k].to = execLog[k].from + 3
          /\ IsExceptionLine(output[execLog[k].to])
          /\ output[execLog[k].from + 1] # output[execLog[k].from + 2]
    /\ \E k \in 1..2 : IsSuccessLine(output[execLog[k].from])

(***************************************************************************)
(* C17: a failing Require appends its message before it raises the abort   *)
(* signal, so a test in which a Require failed is always reported FAILURE  *)
(* with that message, also when the body itself intercepts the abort       *)
(* signal and goes on.                                                     *)
(***************************************************************************)
C17_FailedRequireIsReported ==
    \A k \in 1..Len(execLog) :
        LET e == execLog[k]
            code == e.test.m_testCode
        IN  \A i \in 1..e.run.ran :
                IsFailingRequire(code[i]) =>
                    /\ ExpectedMessage(code[i], "  -  ")
                           \in {e.run.cur.errorMsgs[n] :
                                   n \in 1..Len(e.run.cur.errorMsgs)}
                    /\ ~e.run.escaped
                    /\ IsFailureLine(output[e.from])
                    /\ \E l \in (e.from + 1)..e.to :
                          output[l] = "\t " \o ExpectedMessage(code[i], "  -  ")

(***************************************************************************)
(* C18: RunTests never adds or removes a test: the registry after a run is *)
(* a permutation, sorted by name, of the registry before it.  Every        *)
(* invocation executes every registered test exactly once, and an          *)
(* invocation on the registry as the previous one left it writes the same  *)
(* report as the previous one.                                             *)
(***************************************************************************)
C18_RepeatedRuns ==
    /\ pc \in {"loop", "returned", "unwound"} =>
          /\ Len(m_registeredUnitTests) >= callsAtEntry
          /\ SortedAtRun \in SortTests(registeredAtEntry)
    /\ pc \in {"returned", "unwound"} => ExecutedTests = SortedAtRun
    /\ ( /\ pc = "returned"
         /\ prevRun.returned
         /\ registeredAtEntry = prevRun.sorted ) =>
            output = prevRun.output

=============================================================================
